---- MODULE Spec2Model ----
(***************************************************************************)
(* Model of the Connection Pattern Visualizer (src/app.py): the text       *)
(* normaliser, the co-occurrence graph builder, the metrics computed on    *)
(* the graph with networkx, the layout dispatch of plot_graph and the      *)
(* "Generate Visualization" handler of the Streamlit script.               *)
(*                                                                         *)
(* Text is a sequence of character codes (ord(c)); a value (a node of the  *)
(* graph) is the non-empty code sequence of one trimmed input line.        *)
(* A quotient a / b is kept as the pair [num |-> a, den |-> b]: den = 0 is *)
(* the division that Python refuses (ZeroDivisionError) or that numpy      *)
(* answers with nan.                                                       *)
(***************************************************************************)
EXTENDS Integers, Sequences, FiniteSets

VARIABLES
    column_data,      \* the four text areas: column name -> raw text
    layout_type,      \* viz_settings['layout']
    pc,               \* what the last run of the script rendered / the call reached
    G,                \* the graph built by create_connection_graph
    pos,              \* the layout algorithm plot_graph computed positions with
    metrics,          \* the result of calculate_metrics
    connected_nodes   \* the rows of the "Connection Details" table

vars == <<column_data, layout_type, pc, G, pos, metrics, connected_nodes>>

-----------------------------------------------------------------------------
(* Bounds of the model.                                                    *)

\* characters typed into the four text areas, in total (specification Spec)
MaxChars == 4

\* characters of a request's four columns, in total (specification FnSpec)
FnMaxChars == 2

-----------------------------------------------------------------------------
(* Characters.                                                             *)

\* '\n', the separator of text.split
NL == 10

\* the characters str.strip() removes (ASCII range of str.isspace)
Whitespace == {9, 10, 11, 12, 13, 28, 29, 30, 31, 32}

\* the characters the model types: line break, space, 'a', 'b'
Alphabet == {NL, 32, 97, 98}

-----------------------------------------------------------------------------
(* Columns, colours, layouts.                                              *)

\* the keys of the data dict, in insertion order (lines 319-324)
Cols == <<"col1", "col2", "col3", "col4">>

ColNames == {Cols[i] : i \in 1..Len(Cols)}

colors == [col1 |-> "#FF6B6B", col2 |-> "#4ECDC4", col3 |-> "#45B7D1", col4 |-> "#96CEB4"]

\* the options of the "Layout Algorithm" selectbox
LayoutOptions == <<"spring", "circular", "kamada_kawai">>

KnownLayouts == {LayoutOptions[i] : i \in 1..Len(LayoutOptions)}

\* the sample data of the "Show Sample Data" expander
SampleClientIDs == <<49,50,51,52,10,50,50,51,52,10,51,51,51,52,10,52,52,52,52,10,53,53,53,53>>

SampleCookieHashes == <<97,98,55,55,55,55,55,10,99,100,50,57,51,52,51,10,97,98,55,55,55,55,55,10,97,98,55,55,55,55,55,10,101,102,56,56,56,56,56>>

SamplePasswordHashes == <<104,104,49,49,49,49,49,10,106,106,57,51,57,57,49,10,106,106,57,51,57,57,49,10,106,106,57,51,57,57,49,10,107,107,50,50,50,50,50>>

SampleIPAddresses == <<49,57,50,46,49,54,56,46,49,46,49,10,49,57,50,46,49,54,56,46,49,46,50,10,49,57,50,46,49,54,56,46,49,46,49,10,49,57,50,46,49,54,56,46,49,46,51,10,49,57,50,46,49,54,56,46,49,46,50>>

sample_data == <<SampleClientIDs, SampleCookieHashes, SamplePasswordHashes, SampleIPAddresses>>

-----------------------------------------------------------------------------
(* Sequences.                                                              *)

Range(s) == {s[i] : i \in 1..Len(s)}

\* the element of a one-element set: The({F(x) : x \in {e}}) is F(e) with e
\* evaluated once, before F is applied to it
The(S) == CHOOSE x \in S : TRUE

RECURSIVE SumSeq(_)
SumSeq(s) == IF s = <<>> THEN 0 ELSE Head(s) + SumSeq(Tail(s))

\* a < b in Python's ordering of str (code point by code point, prefix first)
RECURSIVE StrLess(_, _)
StrLess(a, b) ==
    IF b = <<>> THEN FALSE
    ELSE IF a = <<>> THEN TRUE
    ELSE IF Head(a) # Head(b) THEN Head(a) < Head(b)
    ELSE StrLess(Tail(a), Tail(b))

-----------------------------------------------------------------------------
(* process_text_input (lines 19-23).                                       *)

RECURSIVE lstrip(_)
lstrip(s) ==
    IF s = <<>> THEN s
    ELSE IF Head(s) \in Whitespace THEN lstrip(Tail(s)) ELSE s

RECURSIVE rstrip(_)
rstrip(s) ==
    IF s = <<>> THEN s
    ELSE IF s[Len(s)] \in Whitespace THEN rstrip(SubSeq(s, 1, Len(s) - 1)) ELSE s

\* str.strip()
strip(s) == rstrip(lstrip(s))

\* str.split(sep) for a one-character separator: never an empty list
RECURSIVE split(_, _)
split(s, sep) ==
    IF \A i \in 1..Len(s) : s[i] # sep THEN <<s>>
    ELSE LET i == CHOOSE k \in 1..Len(s) : s[k] = sep /\ \A j \in 1..(k - 1) : s[j] # sep
         IN  <<SubSeq(s, 1, i - 1)>> \o split(SubSeq(s, i + 1, Len(s)), sep)

NonEmptyStr(line) == line # <<>>

NonBlank(line) == strip(line) # <<>>

\* process_text_input with the lines kept as typed, blanks and all:
\* [line for line in text.strip().split('\n') if line.strip()]
process_text_input_untrimmed(text) ==
    IF text = <<>> THEN <<>>
    ELSE SelectSeq(split(strip(text), NL), NonBlank)

process_text_input(text) ==
    IF text = <<>> THEN <<>>
    ELSE LET lines == split(strip(text), NL)
         IN  SelectSeq([i \in 1..Len(lines) |-> strip(lines[i])], NonEmptyStr)

-----------------------------------------------------------------------------
(* networkx.Graph: G.nodes in insertion order with their attribute dicts,  *)
(* and the set of edges, an edge being the set of its end points (one      *)
(* element for a self-loop).                                               *)

\* nx.Graph()
EmptyGraph == [nodes |-> <<>>, attr |-> <<>>, edges |-> {}]

\* the attribute dict of a node that add_edge created: no 'color', no 'type'
NoAttr == [color |-> "KeyError", type |-> "KeyError"]

has_node(g, n) == n \in Range(g.nodes)

\* index of node n in G.nodes
NodeIndex(g, n) == CHOOSE i \in 1..Len(g.nodes) : g.nodes[i] = n

\* G.nodes[n]
NodeAttr(g, n) == g.attr[NodeIndex(g, n)]

\* G.add_node(n, color=.., type=..): a new node is appended, an existing one
\* has its attribute dict updated in place
add_node(g, n, a) ==
    IF has_node(g, n)
    THEN [g EXCEPT !.attr[NodeIndex(g, n)] = a]
    ELSE [g EXCEPT !.nodes = Append(@, n), !.attr = Append(@, a)]

\* what add_edge does for an end point: created without attributes if absent
touch_node(g, n) ==
    IF has_node(g, n) THEN g
    ELSE [g EXCEPT !.nodes = Append(@, n), !.attr = Append(@, NoAttr)]

\* G.add_edge(u, v)
add_edge(g, u, v) ==
    [touch_node(touch_node(g, u), v) EXCEPT !.edges = @ \cup {{u, v}}]

number_of_nodes(g) == Len(g.nodes)

number_of_edges(g) == Cardinality(g.edges)

\* G[n]: the neighbours of n, n itself among them when it has a self-loop
neighbors(g, n) == {m \in Range(g.nodes) : {n, m} \in g.edges}

\* G.degree(n): a self-loop counts twice
degree(g, n) ==
    Cardinality(neighbors(g, n)) + (IF {n} \in g.edges THEN 1 ELSE 0)

-----------------------------------------------------------------------------
(* create_connection_graph (lines 50-84).                                  *)

\* a missing cell of the DataFrame; a present cell holding v is <<v>>
None == <<>>

\* pd.notna(cell) / Series.dropna()
notna(cell) == cell # None

MaxOf(S) == CHOOSE m \in S : \A x \in S : x <= m

\* max(len(values) for values in data_dict.values())
max_length(data) == MaxOf({Len(data[c]) : c \in ColNames})

\* the DataFrame of lines 66-69: every column padded with None at its tail
DataFrame(data) ==
    [c \in ColNames |->
        [i \in 1..max_length(data) |->
            IF i <= Len(data[c]) THEN <<data[c][i]>> ELSE None]]

\* the inner loop of lines 73-75 over one column, from row i on
RECURSIVE add_column_nodes(_, _, _, _)
add_column_nodes(g, col, cells, i) ==
    IF i > Len(cells) THEN g
    ELSE LET cell == cells[i]
             g1   == IF notna(cell) /\ cell[1] # <<>>
                     THEN add_node(g, cell[1], [color |-> colors[col], type |-> col])
                     ELSE g
         IN  The({add_column_nodes(h, col, cells, i + 1) : h \in {g1}})

\* the loop of lines 72-75 over the columns, from column k on
RECURSIVE add_nodes(_, _, _)
add_nodes(g, df, k) ==
    IF k > Len(Cols) THEN g
    ELSE The({add_nodes(h, df, k + 1) : h \in {add_column_nodes(g, Cols[k], df[Cols[k]], 1)}})

\* line 79: the values of row idx that are not missing, in column order
RECURSIVE row_values(_, _, _)
row_values(df, idx, k) ==
    IF k > Len(Cols) THEN <<>>
    ELSE LET cell == df[Cols[k]][idx]
         IN  (IF notna(cell) THEN <<cell[1]>> ELSE <<>>) \o row_values(df, idx, k + 1)

\* lines 80-82: an edge for every pair of positions i < j of the row
RECURSIVE add_row_edges(_, _, _, _)
add_row_edges(g, row, i, j) ==
    IF i > Len(row) THEN g
    ELSE IF j > Len(row) THEN add_row_edges(g, row, i + 1, i + 2)
    ELSE The({add_row_edges(h, row, i, j + 1) : h \in {add_edge(g, row[i], row[j])}})

\* the loop of lines 78-82 over the rows, from row idx on
RECURSIVE add_edges(_, _, _)
add_edges(g, df, idx) ==
    IF idx > Len(df[Cols[1]]) THEN g
    ELSE The({add_edges(h, df, idx + 1) : h \in {add_row_edges(g, row_values(df, idx, 1), 1, 2)}})

\* lines 71-84 on the DataFrame
graph_of_frame(df) == The({add_edges(h, df, 1) : h \in {add_nodes(EmptyGraph, df, 1)}})

create_connection_graph(data) == The({graph_of_frame(df) : df \in {DataFrame(data)}})

-----------------------------------------------------------------------------
(* Quotients.                                                              *)

Frac(a, b) == [num |-> a, den |-> b]

RECURSIVE GCD(_, _)
GCD(a, b) == IF b = 0 THEN a ELSE GCD(b, a % b)

Reduce(x) ==
    IF x.den = 0 THEN x
    ELSE LET d == GCD(x.num, x.den) IN Frac(x.num \div d, x.den \div d)

FracAdd(x, y) == Reduce(Frac(x.num * y.den + y.num * x.den, x.den * y.den))

\* x / n
FracDiv(x, n) == Reduce(Frac(x.num, x.den * n))

\* comparisons of two quotients with positive denominators
FracLE(x, y) == x.num * y.den <= y.num * x.den

FracLT(x, y) == x.num * y.den < y.num * x.den

FracEQ(x, y) == x.num * y.den = y.num * x.den

NonZero(x) == x.num # 0

RECURSIVE FracSum(_)
FracSum(s) == IF s = <<>> THEN Frac(0, 1) ELSE FracAdd(Head(s), FracSum(Tail(s)))

-----------------------------------------------------------------------------
(* The networkx and numpy functions calculate_metrics calls.               *)

\* [d for n, d in G.degree()]
degrees(g) == [i \in 1..Len(g.nodes) |-> degree(g, g.nodes[i])]

\* np.mean(list): the mean of an empty list is 0/0, nan
np_mean(s) == Frac(SumSeq(s), Len(s))

\* nx.density: 0 for a graph without edges or with at most one node
density(g) ==
    LET n == number_of_nodes(g)
        m == number_of_edges(g)
    IN  IF m = 0 \/ n <= 1 THEN Frac(0, 1) ELSE Frac(2 * m, n * (n - 1))

\* the nodes reachable from the set seen (nx's _plain_bfs)
RECURSIVE plain_bfs(_, _)
plain_bfs(g, seen) ==
    The({IF next = seen THEN seen ELSE plain_bfs(g, next) :
            next \in {seen \cup UNION {neighbors(g, n) : n \in seen}}})

connected_components(g) == {plain_bfs(g, {n}) : n \in Range(g.nodes)}

number_connected_components(g) == Cardinality(connected_components(g))

\* nx.clustering(G)[v]: self-loops are left out of the neighbourhoods
clustering(g, v) ==
    LET vs == neighbors(g, v) \ {v}
        d  == Cardinality(vs)
        \* twice the number of triangles through v
        t  == Cardinality({p \in vs \X vs : p[2] \in (neighbors(g, p[1]) \ {p[1]})})
    IN  IF t = 0 THEN Frac(0, 1) ELSE Reduce(Frac(t, d * (d - 1)))

\* nx.average_clustering with count_zeros=False: the mean of the
\* coefficients that are not zero
average_clustering_nonzero(g) ==
    The({FracDiv(FracSum(c), Len(c)) :
            c \in {SelectSeq([i \in 1..Len(g.nodes) |-> clustering(g, g.nodes[i])], NonZero)}})

\* nx.average_clustering: sum(c) / len(c), a division by zero on no node
average_clustering(g) ==
    FracDiv(FracSum([i \in 1..Len(g.nodes) |-> clustering(g, g.nodes[i])]),
            number_of_nodes(g))

\* nx.degree_centrality(G).items(): 1 for every node of a graph of at most
\* one node, else degree / (n - 1), in the order of G.nodes
degree_centrality(g) ==
    [i \in 1..Len(g.nodes) |->
        <<g.nodes[i],
          IF number_of_nodes(g) <= 1 THEN Frac(1, 1)
          ELSE Frac(degree(g, g.nodes[i]), number_of_nodes(g) - 1)>>]

\* item inserted into a list ordered by falling score, after the items of
\* the same score
RECURSIVE insert_desc(_, _)
insert_desc(sorted, item) ==
    IF sorted = <<>> THEN <<item>>
    ELSE IF FracLT(Head(sorted)[2], item[2]) THEN <<item>> \o sorted
    ELSE <<Head(sorted)>> \o insert_desc(Tail(sorted), item)

RECURSIVE sorted_from(_, _, _)
sorted_from(acc, items, i) ==
    IF i > Len(items) THEN acc
    ELSE The({sorted_from(a, items, i + 1) : a \in {insert_desc(acc, items[i])}})

\* item inserted into a list ordered by falling score, before the items of
\* the same score
RECURSIVE insert_desc_first(_, _)
insert_desc_first(sorted, item) ==
    IF sorted = <<>> THEN <<item>>
    ELSE IF FracLE(Head(sorted)[2], item[2]) THEN <<item>> \o sorted
    ELSE <<Head(sorted)>> \o insert_desc_first(Tail(sorted), item)

RECURSIVE reversed_from(_, _, _)
reversed_from(acc, items, i) ==
    IF i > Len(items) THEN acc
    ELSE The({reversed_from(a, items, i + 1) : a \in {insert_desc_first(acc, items[i])}})

\* sorted(items, key=lambda x: x[1])[::-1]: the rising order reversed, items
\* of equal key in the reverse of the order they had
sorted_by_centrality_reversed(items) == reversed_from(<<>>, items, 1)

\* sorted(items, key=lambda x: x[1], reverse=True): a stable sort, items of
\* equal key keep the order they had
sorted_by_centrality(items) == sorted_from(<<>>, items, 1)

\* the slice [:5] of line 38
TopK == 5

\* s[:k]
Take(s, k) == SubSeq(s, 1, IF Len(s) < k THEN Len(s) ELSE k)

most_central_nodes(g) ==
    The({Take(s, TopK) : s \in {sorted_by_centrality(degree_centrality(g))}})

\* nx.community.greedy_modularity_communities(G): what the call can end
\* with.  Without an edge it divides by the number of edges (networkx up to
\* 2.x) or returns every node as its own community (later releases).  With
\* edges it returns a partition of the nodes into communities, of which the
\* model keeps the range its length lies in: lo..hi.
greedy_modularity_communities(g) ==
    IF number_of_edges(g) = 0
    THEN {[raised |-> TRUE, lo |-> 0, hi |-> 0],
          [raised |-> FALSE, lo |-> number_of_nodes(g), hi |-> number_of_nodes(g)]}
    ELSE {[raised |-> FALSE, lo |-> 1, hi |-> number_of_nodes(g)]}

-----------------------------------------------------------------------------
(* calculate_metrics (lines 25-48); found is the outcome of the community  *)
(* detection.                                                              *)

NoMetrics ==
    [raised |-> "none", total_nodes |-> 0, total_connections |-> 0,
     avg_connections |-> Frac(0, 1), density |-> Frac(0, 1),
     connected_components |-> 0, avg_clustering |-> Frac(0, 1),
     most_central_nodes |-> <<>>, communities |-> [kind |-> "unset", lo |-> 0, hi |-> 0]]

calculate_metrics(g, found) ==
    The({IF ac.den = 0
         THEN \* sum(c) / len(c) raised in average_clustering
              [NoMetrics EXCEPT !.raised = "ZeroDivisionError"]
         ELSE [raised               |-> "none",
               total_nodes          |-> number_of_nodes(g),
               total_connections    |-> number_of_edges(g),
               avg_connections      |-> np_mean(degrees(g)),
               density              |-> density(g),
               connected_components |-> number_connected_components(g),
               avg_clustering       |-> ac,
               most_central_nodes   |-> most_central_nodes(g),
               communities          |-> IF found.raised
                                        THEN [kind |-> "N/A", lo |-> 0, hi |-> 0]
                                        ELSE [kind |-> "count", lo |-> found.lo, hi |-> found.hi]]
         : ac \in {average_clustering(g)}})

-----------------------------------------------------------------------------
(* plot_graph (lines 86-185): the layout function it computes pos with.    *)

plot_graph(g, layout) ==
    IF layout = "spring" THEN "spring_layout"
    ELSE IF layout = "circular" THEN "circular_layout"
    ELSE "kamada_kawai_layout"

-----------------------------------------------------------------------------
(* The Streamlit script (lines 293-378).  Every interaction with a widget  *)
(* reruns the script; st.button is True only in the run its click caused,  *)
(* so every other run renders the form alone.                              *)

\* the values of the handler's variables in a run that does not enter it
NothingRendered ==
    /\ G = EmptyGraph
    /\ pos = "none"
    /\ metrics = NoMetrics
    /\ connected_nodes = <<>>

RenderForm ==
    /\ pc' = "form"
    /\ G' = EmptyGraph
    /\ pos' = "none"
    /\ metrics' = NoMetrics
    /\ connected_nodes' = <<>>

\* characters in the four text areas
TotalChars(cd) == SumSeq([i \in 1..Len(Cols) |-> Len(cd[Cols[i]])])

\* lines 319-324
data_of(cd) == [c \in ColNames |-> process_text_input(cd[c])]

\* any(data.values()), line 326
any_values(data) == \E c \in ColNames : data[c] # <<>>

\* lines 360-369: a row for every node of degree above 1, in node order
RECURSIVE connection_rows(_, _)
connection_rows(g, i) ==
    IF i > Len(g.nodes) THEN <<>>
    ELSE LET node == g.nodes[i]
             row  == [Value       |-> node,
                      Connections |-> degree(g, node),
                      Type        |-> NodeAttr(g, node).type,
                      Centrality  |-> degree_centrality(g)[i][2]]
         IN  (IF degree(g, node) > 1 THEN <<row>> ELSE <<>>) \o connection_rows(g, i + 1)

Init ==
    /\ column_data = [c \in ColNames |-> <<>>]
    /\ layout_type = LayoutOptions[1]
    /\ pc = "form"
    /\ NothingRendered

\* st.text_area: a character typed at the end of a column's text
TypeChar(c, ch) ==
    /\ TotalChars(column_data) < MaxChars
    /\ column_data' = [column_data EXCEPT ![c] = Append(@, ch)]
    /\ UNCHANGED layout_type
    /\ RenderForm

\* st.text_area: a column's text deleted
ClearColumn(c) ==
    /\ column_data[c] # <<>>
    /\ column_data' = [column_data EXCEPT ![c] = <<>>]
    /\ UNCHANGED layout_type
    /\ RenderForm

\* st.selectbox "Layout Algorithm" (lines 249-253)
SelectLayout(l) ==
    /\ l # layout_type
    /\ layout_type' = l
    /\ UNCHANGED column_data
    /\ RenderForm

\* lines 337-376: the metrics and the connection details rendered, or the
\* exception of calculate_metrics ending the run
render_analysis(g, m) ==
    /\ G' = g
    /\ pos' = plot_graph(g, layout_type)
    /\ metrics' = m
    /\ IF m.raised = "none"
       THEN /\ connected_nodes' = connection_rows(g, 1)
            /\ pc' = "analysis"
       ELSE /\ connected_nodes' = <<>>
            /\ pc' = "exception"

\* lines 327-335 on the graph built
analyse(g) ==
    \E found \in greedy_modularity_communities(g) :
        render_analysis(g, calculate_metrics(g, found))

\* lines 326-378 on the normalised columns
generate(data) ==
    IF any_values(data)
    THEN analyse(create_connection_graph(data))
    ELSE \* st.warning, line 378
         /\ pc' = "warning"
         /\ G' = EmptyGraph
         /\ pos' = "none"
         /\ metrics' = NoMetrics
         /\ connected_nodes' = <<>>

\* st.button "Generate Visualization" clicked (lines 318-378)
Generate ==
    /\ pc \in {"form", "analysis", "warning", "exception"}
    /\ UNCHANGED <<column_data, layout_type>>
    /\ generate(data_of(column_data))

\* text typed into the columns under the default visualization settings; the
\* layout selectbox is exercised by SampleNext below
Next ==
    \/ \E c \in ColNames, ch \in Alphabet : TypeChar(c, ch)
    \/ \E c \in ColNames : ClearColumn(c)
    \/ Generate

Spec == Init /\ [][Next]_vars

-----------------------------------------------------------------------------
(* The same script with the sample data of the expander (lines 381-443)    *)
(* pasted into the text areas.                                             *)

PasteSample(c, k) ==
    /\ column_data[c] # sample_data[k]
    /\ column_data' = [column_data EXCEPT ![c] = sample_data[k]]
    /\ UNCHANGED layout_type
    /\ RenderForm

SampleNext ==
    \/ \E c \in ColNames, k \in 1..Len(sample_data) : PasteSample(c, k)
    \/ \E c \in ColNames : ClearColumn(c)
    \/ \E l \in KnownLayouts : SelectLayout(l)
    \/ Generate

SampleSpec == Init /\ [][SampleNext]_vars

-----------------------------------------------------------------------------
(* The three functions called as the handler calls them (lines 327-335),   *)
(* on any request: four texts and a layout name.                           *)

\* a layout name that is none of the selectbox's options
UnknownLayout == "random"

Texts(k) == UNION {[1..n -> Alphabet] : n \in 0..k}

\* the four texts of a request, of at most k characters in total
Requests(k) == {cd \in [ColNames -> Texts(k)] : TotalChars(cd) <= k}

FnInit ==
    /\ column_data \in Requests(FnMaxChars)
    /\ layout_type \in KnownLayouts \cup {UnknownLayout}
    /\ pc = "request"
    /\ NothingRendered

\* G = create_connection_graph(data), line 327
CallCreate ==
    /\ pc = "request"
    /\ G' = create_connection_graph(data_of(column_data))
    /\ pc' = "built"
    /\ UNCHANGED <<column_data, layout_type, pos, metrics, connected_nodes>>

\* plt = plot_graph(G, title_text, viz_settings), line 328
CallPlot ==
    /\ pc = "built"
    /\ pos' = plot_graph(G, layout_type)
    /\ pc' = "plotted"
    /\ UNCHANGED <<column_data, layout_type, G, metrics, connected_nodes>>

\* metrics = calculate_metrics(G), line 335
CallMetrics ==
    /\ pc = "plotted"
    /\ \E found \in greedy_modularity_communities(G) :
         /\ metrics' = calculate_metrics(G, found)
         /\ pc' = IF metrics'.raised = "none" THEN "analysed" ELSE "raised"
    /\ UNCHANGED <<column_data, layout_type, G, pos, connected_nodes>>

FnNext == CallCreate \/ CallPlot \/ CallMetrics

FnSpec == FnInit /\ [][FnNext]_vars

-----------------------------------------------------------------------------
(* What the claims speak of.                                               *)

\* G holds the graph create_connection_graph returned for column_data
Built == pc \in {"analysis", "exception", "built", "plotted", "analysed", "raised"}

\* the Generate handler has run to its end, one way or the other
Generated == pc \in {"analysis", "exception", "warning"}

\* calculate_metrics has been called on G
MetricsCalled == pc \in {"analysis", "exception", "analysed", "raised"}

Nodes == Range(G.nodes)

\* text[i..j] is a line of text without the whitespace around it: it holds
\* no line break, begins and ends with a character that is no whitespace,
\* and only whitespace separates it from the line breaks around it
IsValueAt(text, i, j) ==
    /\ i <= j
    /\ \A k \in i..j : text[k] # NL
    /\ text[i] \notin Whitespace
    /\ text[j] \notin Whitespace
    /\ \A k \in 1..(i - 1) : (\A l \in k..(i - 1) : text[l] # NL) => text[k] \in Whitespace
    /\ \A k \in (j + 1)..Len(text) : (\A l \in (j + 1)..k : text[l] # NL) => text[k] \in Whitespace

ValuesOf(text) ==
    {SubSeq(text, p[1], p[2]) :
        p \in {q \in (1..Len(text)) \X (1..Len(text)) : IsValueAt(text, q[1], q[2])}}

\* the distinct non-empty values of the four columns
DistinctValues == UNION {ValuesOf(column_data[c]) : c \in ColNames}

\* the columns as the handler normalises them
Data == data_of(column_data)

\* columns that contain data
FilledColumns == {c \in ColNames : Data[c] # <<>>}

\* the values that stand in the same row as n, n itself left out
Partners(n) ==
    {v \in DistinctValues \ {n} :
        \E idx \in 1..max_length(Data), c1 \in ColNames, c2 \in ColNames :
            /\ idx <= Len(Data[c1])
            /\ idx <= Len(Data[c2])
            /\ Data[c1][idx] = n
            /\ Data[c2][idx] = v}

\* the first column, in the order the builder walks them, that holds n
FirstColumn(n) ==
    Cols[CHOOSE k \in 1..Len(Cols) :
            /\ n \in Range(Data[Cols[k]])
            /\ \A j \in 1..(k - 1) : n \notin Range(Data[Cols[j]])]

\* 0 <= x <= 1 for a quotient that exists
InUnitInterval(x) == x.den > 0 /\ 0 <= x.num /\ x.num <= x.den

\* x = 0 for a quotient that exists
IsZero(x) == x.den > 0 /\ x.num = 0

\* the centrality nx.degree_centrality gives node n of G
CentralityOf(n) == degree_centrality(G)[NodeIndex(G, n)][2]

\* a before b in the order of falling centrality, equal centralities in the
\* order the nodes were inserted into the graph
BeforeByInsertion(a, b) ==
    \/ FracLT(CentralityOf(b), CentralityOf(a))
    \/ /\ FracEQ(CentralityOf(a), CentralityOf(b))
       /\ NodeIndex(G, a) < NodeIndex(G, b)

\* a before b in the order of falling centrality, equal centralities in the
\* lexicographic order of the value strings
BeforeByName(a, b) ==
    \/ FracLT(CentralityOf(b), CentralityOf(a))
    \/ /\ FracEQ(CentralityOf(a), CentralityOf(b))
       /\ StrLess(a, b)

\* the nodes listed in most_central_nodes
Listed == {metrics.most_central_nodes[i][1] : i \in 1..Len(metrics.most_central_nodes)}

\* most_central_nodes is the first TopK nodes of the order Before(_, _)
IsTopK(Before(_, _)) ==
    LET L == metrics.most_central_nodes
    IN  /\ Len(L) = (IF number_of_nodes(G) < TopK THEN number_of_nodes(G) ELSE TopK)
        /\ \A i \in 1..Len(L) : L[i][1] \in Nodes /\ L[i][2] = CentralityOf(L[i][1])
        /\ \A i \in 1..Len(L), j \in 1..Len(L) : i < j => Before(L[i][1], L[j][1])
        /\ \A i \in 1..Len(L) : \A n \in Nodes \ Listed : Before(L[i][1], n)

-----------------------------------------------------------------------------
(* The claims.                                                             *)

\* C1: the graph create_connection_graph returns is simple: no edge joins a
\* value to itself (parallel edges cannot be held by nx.Graph, nor by the set
\* of edges that models it).
C1_GraphIsSimple ==
    Built => \A e \in G.edges : Cardinality(e) = 2

\* C2: the nodes of the built graph are exactly the distinct non-empty
\* trimmed lines of the four texts, each once; padding adds no node.
C2_NodesAreDistinctValues ==
    Built => /\ number_of_nodes(G) = Cardinality(DistinctValues)
             /\ Nodes = DistinctValues

\* C2 witness: a graph built from two filled columns of different lengths,
\* the shorter one padded.
C2_PaddedColumnBuilt ==
    /\ Built
    /\ \E c1 \in FilledColumns, c2 \in FilledColumns : Len(Data[c1]) < Len(Data[c2])
    /\ number_of_nodes(G) >= 2

\* C3: the degree of every node is the number of distinct other values that
\* stand in a row with it, and so is the Connections entry of its row.
C3_DegreeIsPartnerCount ==
    Built => /\ \A n \in Nodes : degree(G, n) = Cardinality(Partners(n))
             /\ \A i \in 1..Len(connected_nodes) :
                    connected_nodes[i].Connections = Cardinality(Partners(connected_nodes[i].Value))

\* C4: density, every degree centrality and every clustering coefficient of
\* a built graph lie in [0, 1].
C4_MetricsInUnitInterval ==
    pc = "analysis" =>
        /\ InUnitInterval(metrics.density)
        /\ \A n \in Nodes : InUnitInterval(CentralityOf(n))
        /\ \A n \in Nodes : InUnitInterval(clustering(G, n))

\* C5: when every column normalises to an empty list the graph has no node
\* and no edge, and calculate_metrics returns on it, with zero or empty
\* values, without raising.
C5_EmptyInputMetrics ==
    (MetricsCalled /\ FilledColumns = {}) =>
        /\ number_of_nodes(G) = 0
        /\ number_of_edges(G) = 0
        /\ metrics.raised = "none"
        /\ metrics.total_nodes = 0
        /\ metrics.total_connections = 0
        /\ metrics.connected_components = 0
        /\ metrics.most_central_nodes = <<>>
        /\ metrics.communities.kind \in {"count", "N/A"}
        /\ metrics.communities.hi = 0

\* C6: a value that stands in several columns keeps the type of the column
\* it was first met in.
C6_FirstSeenFieldWins ==
    Built => \A n \in Nodes : NodeAttr(G, n).type = FirstColumn(n)

\* C7 as stated: most_central_nodes is the first five nodes by falling
\* centrality, nodes of equal centrality in lexicographic order.
C7_TiesInLexicographicOrder ==
    pc = "analysis" => IsTopK(BeforeByName)

\* C7 as amended: most_central_nodes is the first five nodes by falling
\* centrality, nodes of equal centrality in the order in which they were
\* inserted into the graph.
C7_TiesInInsertionOrder ==
    pc = "analysis" => IsTopK(BeforeByInsertion)

\* C7 witness: more than five nodes, and two listed nodes of equal
\* centrality whose insertion order is not their lexicographic order.
C7_TieAgainstLexicographicOrder ==
    /\ pc = "analysis"
    /\ number_of_nodes(G) > TopK
    /\ \E a \in Listed, b \in Listed :
            /\ FracEQ(CentralityOf(a), CentralityOf(b))
            /\ NodeIndex(G, a) < NodeIndex(G, b)
            /\ StrLess(b, a)

\* C8: a request that names no known layout is rejected before any graph is
\* built and before any layout is computed.
C8_UnknownLayoutRejected ==
    layout_type \notin KnownLayouts => (~Built /\ pos = "none" /\ G = EmptyGraph)

\* C9: on a graph with a node and without an edge calculate_metrics returns
\* without raising: density 0, average clustering 0, as many components as
\* nodes, and a community count or the N/A marker.
C9_NoEdgeMetrics ==
    (MetricsCalled /\ number_of_nodes(G) >= 1 /\ number_of_edges(G) = 0) =>
        /\ metrics.raised = "none"
        /\ IsZero(metrics.density)
        /\ IsZero(metrics.avg_clustering)
        /\ metrics.connected_components = number_of_nodes(G)
        /\ metrics.communities.kind \in {"count", "N/A"}

\* C9 witness: metrics computed on a graph of several nodes and no edge,
\* the community detection having failed.
C9_NoEdgeGraphAnalysed ==
    /\ pc = "analysis"
    /\ number_of_nodes(G) >= 2
    /\ number_of_edges(G) = 0
    /\ metrics.communities.kind = "N/A"

\* C10: Generate builds and analyses a graph only when at least two columns
\* contain data; with fewer it builds nothing and shows the warning.
C10_TwoColumnsNeeded ==
    Generated =>
        IF Cardinality(FilledColumns) >= 2
        THEN pc = "analysis"
        ELSE pc = "warning" /\ G = EmptyGraph /\ pos = "none"

====
